---- MODULE Spec2Model ----
(***************************************************************************)
(* A model of three components of morphodict:                              *)
(*   - TagMap             (CreeDictionary/phrase_translate/tag_map.py)     *)
(*   - ParadigmManager    (CreeDictionary/paradigm/manager.py)             *)
(*   - get_lexical_information (API/search/presentation.py)                *)
(* Strings that the code slices or inspects character by character are     *)
(* sequences of one-character strings; "+A" is <<"+", "A">>.               *)
(***************************************************************************)
EXTENDS Integers, Sequences, FiniteSets, TLC

VARIABLES
    tm_pc,            \* TagMap: "new" | "built" | "failed" | "called"
    tag_definitions,  \* TagMap: the arguments __init__ was called with
    tagmap,           \* TagMap: the four compiled tables (and the error raised)
    map_input,        \* TagMap: the argument of the last map_tags call
    map_result,       \* TagMap: what the last map_tags call did and returned
    pm_pc,            \* ParadigmManager: "new" | "loaded" | "failed"
    layout_directory, \* ParadigmManager: the layout files under static/ and dynamic/
    name_to_layout,   \* ParadigmManager._name_to_layout
    size_to_order,    \* ParadigmManagerWithExplicitSizes._size_to_order
    pm_call,          \* ParadigmManager: the last query and its outcome
    lx_pc,            \* get_lexical_information: "idle" | "returned"
    result_analysis,  \* get_lexical_information: its argument, a string
    preverbs_found,   \* what lookup.fetch_preverbs answers during the call
    lexical_info,     \* get_lexical_information: how it ended and what it returned
    preverbs,         \* PresentationResult.preverbs
    reduplication     \* PresentationResult.reduplication

tm_vars == <<tm_pc, tag_definitions, tagmap, map_input, map_result>>
pm_vars == <<pm_pc, layout_directory, name_to_layout, size_to_order, pm_call>>
lx_vars == <<lx_pc, result_analysis, preverbs_found, lexical_info, preverbs, reduplication>>
vars == <<tm_vars, pm_vars, lx_vars>>

Range(s) == {s[i] : i \in DOMAIN s}

SeqsUpTo(S, n) == UNION {[1..k -> S] : k \in 0..n}

(***************************************************************************)
(* TagMap                                                                  *)
(***************************************************************************)

\* Sentinels: Python's None, and the two class-level object() markers.
None == <<"<None>">>
DEFAULT == <<"<DEFAULT>">>
COPY_TAG_NAME == <<"<COPY_TAG_NAME>">>

TagA == <<"+", "A">>
TagB == <<"+", "B">>
TagC == <<"+", "C">>
TargetX == <<"x">>

\* A wordform_tag_spec: a tuple of tags (isinstance(spec, tuple)), the
\* DEFAULT marker, or a single tag.
MultiSpec(tags) == [kind |-> "multi", tags |-> tags]
DefaultSpec == [kind |-> "default", tags |-> <<DEFAULT>>]
SingleSpec(tag) == [kind |-> "single", tags |-> <<tag>>]

MaxDefs == 2
MaxInputLen == 3

SourceTags == {TagA, TagB, TagC}
WordformTagSpecs ==
    {SingleSpec(TagB), SingleSpec(TagC), MultiSpec(<<TagA, TagB>>),
     MultiSpec(<<TagC>>), DefaultSpec}
PhraseTagSpecs == {TargetX, None, COPY_TAG_NAME}
Precedences == {0, 1}
TagDefinitions ==
    [source : WordformTagSpecs, target : PhraseTagSpecs, prec : Precedences]

\* A Python dict as a function; its keys are its DOMAIN.
EmptyDict == [k \in {} |-> None]
DictSet(d, k, v) == [x \in (DOMAIN d) \cup {k} |-> IF x = k THEN v ELSE d[x]]

\* tag_map.py:20-23
NewTagMap ==
    [multi_mappings |-> <<>>,
     tag_mapping |-> EmptyDict,
     precedences |-> EmptyDict,
     defaults_by_precedence |-> <<>>,   \* insertion-ordered dict: <<prec, tag>> pairs
     error |-> "none"]

DefaultPrecs(tm) ==
    {tm.defaults_by_precedence[i][1] : i \in DOMAIN tm.defaults_by_precedence}

\* tag_map.py:43  wordform_tag_spec[1:] + "+"
CopyName(tag) == Tail(tag) \o <<"+">>

\* RecordPrecedence without the conflict check: the later precedence wins.
RecordPrecedence_overwrite(tm, phrase_tag_spec, prec) ==
    IF phrase_tag_spec = None THEN tm
    ELSE [tm EXCEPT !.precedences = DictSet(@, phrase_tag_spec, prec)]

\* tag_map.py:46-53  record the precedence of the target, or raise on a conflict
RecordPrecedence(tm, phrase_tag_spec, prec) ==
    IF phrase_tag_spec = None THEN tm
    ELSE IF phrase_tag_spec \in DOMAIN tm.precedences
         THEN IF prec # tm.precedences[phrase_tag_spec]
              THEN [tm EXCEPT !.error = "conflicting precedences"]
              ELSE tm
         ELSE [tm EXCEPT !.precedences = DictSet(@, phrase_tag_spec, prec)]

\* tag_map.py:25-53  one iteration of the loop over tag_definitions
AddDefinition(tm, d) ==
    IF d.source.kind = "multi"
    THEN IF d.target = COPY_TAG_NAME
         THEN [tm EXCEPT !.error = "cannot use copy with multi-tags"]
         ELSE RecordPrecedence(
                [tm EXCEPT !.multi_mappings =
                    Append(@, [tags |-> d.source.tags, target |-> d.target,
                               prec |-> d.prec])],
                d.target, d.prec)
    ELSE IF d.source.kind = "default"
    THEN IF d.prec \in DefaultPrecs(tm)
         THEN [tm EXCEPT !.error = "multiple defaults"]
         ELSE RecordPrecedence(
                [tm EXCEPT !.defaults_by_precedence = Append(@, <<d.prec, d.target>>)],
                d.target, d.prec)
    ELSE LET wordform_tag == d.source.tags[1] IN
         IF d.target = COPY_TAG_NAME /\ (wordform_tag = <<>> \/ Head(wordform_tag) # "+")
         THEN [tm EXCEPT !.error = "AssertionError"]
         ELSE LET phrase_tag_spec ==
                    IF d.target = COPY_TAG_NAME THEN CopyName(wordform_tag)
                    ELSE d.target
              IN RecordPrecedence(
                    [tm EXCEPT !.tag_mapping = DictSet(@, wordform_tag, phrase_tag_spec)],
                    phrase_tag_spec, d.prec)

\* tag_map.py:16-53  TagMap.__init__: the loop stops at the first raise
RECURSIVE CompileFrom(_, _, _)
CompileFrom(tm, defs, i) ==
    IF i > Len(defs) \/ tm.error # "none" THEN tm
    ELSE CompileFrom(AddDefinition(tm, defs[i]), defs, i + 1)

Compile(defs) == CompileFrom(NewTagMap, defs, 1)

\* is_subsequence that only accepts the tags side by side.
is_subsequence_contiguous(outer_list, target_subsequence) ==
    \E o \in 0..(Len(outer_list) - Len(target_subsequence)) :
        \A k \in DOMAIN target_subsequence : outer_list[o + k] = target_subsequence[k]

\* tag_map.py:6-8  all(x in it for x in target_subsequence): each x is searched
\* for from where the iterator stopped, and the search consumes what it passes.
RECURSIVE is_subsequence(_, _)
is_subsequence(outer_list, target_subsequence) ==
    IF target_subsequence = <<>> THEN TRUE
    ELSE LET hits == {i \in DOMAIN outer_list : outer_list[i] = Head(target_subsequence)}
         IN IF hits = {} THEN FALSE
            ELSE LET first == CHOOSE i \in hits : \A j \in hits : i <= j
                 IN is_subsequence(SubSeq(outer_list, first + 1, Len(outer_list)),
                                   Tail(target_subsequence))

\* tag_map.py:67  [x for x in input_tags if x not in wordform_tag_spec]
ConsumeTags(input_tags, wordform_tag_spec) ==
    SelectSeq(input_tags, LAMBDA x : x \notin Range(wordform_tag_spec))

\* tag_map.py:63-67  the loop over the multi-mappings. st.work[i] is input_tags
\* as rule i found it and st.fired[i] whether rule i matched.
RECURSIVE MultiMappingsFrom(_, _, _)
MultiMappingsFrom(tm, st, i) ==
    IF i > Len(tm.multi_mappings) THEN st
    ELSE LET m == tm.multi_mappings[i]
             hit == is_subsequence(st.input_tags, m.tags)
         IN MultiMappingsFrom(tm,
              [input_tags |-> IF hit THEN ConsumeTags(st.input_tags, m.tags)
                              ELSE st.input_tags,
               tags_for_phrase |-> IF hit /\ m.target # None
                                   THEN Append(st.tags_for_phrase, m.target)
                                   ELSE st.tags_for_phrase,
               work |-> Append(st.work, st.input_tags),
               fired |-> Append(st.fired, hit)],
              i + 1)

\* The normal mapping with an unknown tag skipped instead of raised.
RECURSIVE NormalMappingFrom_skip(_, _, _, _)
NormalMappingFrom_skip(tm, input_tags, tags_for_phrase, i) ==
    IF i > Len(input_tags)
    THEN [unknown |-> None, tags_for_phrase |-> tags_for_phrase]
    ELSE LET wordform_tag == input_tags[i]
             phrase_tag == IF wordform_tag \in DOMAIN tm.tag_mapping
                           THEN tm.tag_mapping[wordform_tag] ELSE None
         IN NormalMappingFrom_skip(tm, input_tags,
                IF phrase_tag # None /\ phrase_tag \notin Range(tags_for_phrase)
                THEN Append(tags_for_phrase, phrase_tag)
                ELSE tags_for_phrase,
                i + 1)

\* tag_map.py:70-76  the loop over the remaining input tags; it stops at the
\* first tag that is no key of _tag_mapping.
RECURSIVE NormalMappingFrom(_, _, _, _)
NormalMappingFrom(tm, input_tags, tags_for_phrase, i) ==
    IF i > Len(input_tags)
    THEN [unknown |-> None, tags_for_phrase |-> tags_for_phrase]
    ELSE LET wordform_tag == input_tags[i] IN
         IF wordform_tag \notin DOMAIN tm.tag_mapping
         THEN [unknown |-> wordform_tag, tags_for_phrase |-> tags_for_phrase]
         ELSE LET phrase_tag == tm.tag_mapping[wordform_tag] IN
              NormalMappingFrom(tm, input_tags,
                  IF phrase_tag # None /\ phrase_tag \notin Range(tags_for_phrase)
                  THEN Append(tags_for_phrase, phrase_tag)
                  ELSE tags_for_phrase,
                  i + 1)

\* The defaults appended whether or not their precedence is taken.
DefaultsFrom_always(tm, used_precedences, i) ==
    [k \in DOMAIN tm.defaults_by_precedence |-> tm.defaults_by_precedence[k][2]]

\* tag_map.py:79-82  the defaults of the precedences no collected tag has,
\* in the dict's insertion order
RECURSIVE DefaultsFrom(_, _, _)
DefaultsFrom(tm, used_precedences, i) ==
    IF i > Len(tm.defaults_by_precedence) THEN <<>>
    ELSE LET prec == tm.defaults_by_precedence[i][1]
             default == tm.defaults_by_precedence[i][2]
         IN (IF prec \notin used_precedences THEN <<default>> ELSE <<>>)
            \o DefaultsFrom(tm, used_precedences, i + 1)

\* A sort step that puts x in front of the elements with its own key.
InsertByPrecedence_unstable(tm, sorted, x) ==
    LET n == Cardinality({i \in DOMAIN sorted :
                            tm.precedences[sorted[i]] < tm.precedences[x]})
    IN SubSeq(sorted, 1, n) \o <<x>> \o SubSeq(sorted, n + 1, Len(sorted))

\* One step of a stable sort: x goes behind every element whose key is not
\* greater than its own.
InsertByPrecedence(tm, sorted, x) ==
    LET n == Cardinality({i \in DOMAIN sorted :
                            tm.precedences[sorted[i]] <= tm.precedences[x]})
    IN SubSeq(sorted, 1, n) \o <<x>> \o SubSeq(sorted, n + 1, Len(sorted))

\* tag_map.py:86  list.sort(key=self._precedences.__getitem__), a stable sort
RECURSIVE SortByPrecedence(_, _)
SortByPrecedence(tm, tags) ==
    IF tags = <<>> THEN <<>>
    ELSE InsertByPrecedence(tm,
            SortByPrecedence(tm, SubSeq(tags, 1, Len(tags) - 1)), tags[Len(tags)])

\* What a call leaves behind when it raises: no return value.
Raised(status, tag, multi, normal, defaults) ==
    [status |-> status, error_tag |-> tag, work |-> multi.work,
     fired |-> multi.fired, remaining |-> multi.input_tags,
     multi_tags |-> multi.tags_for_phrase, single_tags |-> normal,
     default_tags |-> defaults, tags |-> <<>>]

\* tag_map.py:55-88  TagMap.map_tags
map_tags(tm, input_tags) ==
    LET multi == MultiMappingsFrom(tm,
                    [input_tags |-> input_tags, tags_for_phrase |-> <<>>,
                     work |-> <<>>, fired |-> <<>>], 1)
        normal == NormalMappingFrom(tm, multi.input_tags, multi.tags_for_phrase, 1)
        collected == normal.tags_for_phrase
        single_tags == SubSeq(collected, Len(multi.tags_for_phrase) + 1, Len(collected))
        used_precedences == {tm.precedences[tag] : tag \in Range(collected)}
        defaults == DefaultsFrom(tm, used_precedences, 1)
        tags_for_phrase == collected \o defaults
    IN IF normal.unknown # None
       THEN Raised("UnknownTagError", normal.unknown, multi, single_tags, <<>>)
       ELSE IF \E tag \in Range(tags_for_phrase) : tag \notin DOMAIN tm.precedences
       THEN Raised("KeyError", None, multi, single_tags, defaults)
       ELSE [Raised("ok", None, multi, single_tags, defaults)
                EXCEPT !.tags = SortByPrecedence(tm, tags_for_phrase)]

NoCall ==
    [status |-> "none", error_tag |-> None, work |-> <<>>, fired |-> <<>>,
     remaining |-> <<>>, multi_tags |-> <<>>, single_tags |-> <<>>,
     default_tags |-> <<>>, tags |-> <<>>]

InitTagMap ==
    /\ tm_pc = "new"
    /\ tag_definitions = <<>>
    /\ tagmap = NewTagMap
    /\ map_input = <<>>
    /\ map_result = NoCall

\* TagMap(*tag_definitions)
TagMapInit ==
    /\ tm_pc = "new"
    /\ \E defs \in SeqsUpTo(TagDefinitions, MaxDefs) :
         /\ tag_definitions' = defs
         /\ tagmap' = Compile(defs)
         /\ tm_pc' = IF Compile(defs).error = "none" THEN "built" ELSE "failed"
    /\ UNCHANGED <<map_input, map_result, pm_vars, lx_vars>>

\* tagmap.map_tags(input_tags), on a TagMap whose construction succeeded. The
\* call changes none of the tables, so a second call on the same TagMap
\* starts from the state the first one started from.
MapTags ==
    /\ tm_pc = "built"
    /\ \E input_tags \in SeqsUpTo(SourceTags, MaxInputLen) :
         /\ map_input' = input_tags
         /\ map_result' = map_tags(tagmap, input_tags)
    /\ tm_pc' = "called"
    /\ UNCHANGED <<tag_definitions, tagmap, pm_vars, lx_vars>>

NextTagMap == TagMapInit \/ MapTags

(***************************************************************************)
(* ParadigmManager                                                         *)
(***************************************************************************)

\* manager.py:11
ONLY_SIZE == "<only-size>"

MaxFiles == 2         \* layout files under one root
MaxOrderedSizes == 2  \* length of ordered_sizes
MaxCells == 2         \* template cells of one layout

ParadigmNames == {"NA", "VTA"}
SizeNames == {"basic", "full"}

\* A .tsv file under a root: directly in it (<stem>.tsv) or in an immediate
\* subdirectory (<parent>/<stem>.tsv).
TopLevelFile(stem) == [in_subdir |-> FALSE, parent |-> "", stem |-> stem]
SizeFile(parent, stem) == [in_subdir |-> TRUE, parent |-> parent, stem |-> stem]
LayoutFiles ==
    {TopLevelFile("NA"), SizeFile("NA", "basic"), SizeFile("NA", "full"),
     SizeFile("VTA", "basic"), SizeFile("VTA", ONLY_SIZE)}

\* A root directory: missing, or holding some layout files.
MissingRoot == [exists |-> FALSE, files |-> {}]
Roots ==
    {MissingRoot}
    \cup {[exists |-> TRUE, files |-> fs] :
            fs \in {x \in SUBSET LayoutFiles : Cardinality(x) <= MaxFiles}}

\* manager.py:212-213  the layout parsed from one file; its content is the
\* layout collaborator's, so the layout is known here by the file it came from.
_load_layout_file(root_name, file) == [root |-> root_name, file |-> file]

NoLayout == [root |-> "", file |-> TopLevelFile("")]

\* manager.py:184-209  the (paradigm, size, layout) tuples one root yields
_load_all_layouts_in_directory(root_name, root) ==
    {IF f.in_subdir
     THEN <<f.parent, f.stem, _load_layout_file(root_name, f)>>
     ELSE <<f.stem, ONLY_SIZE, _load_layout_file(root_name, f)>> : f \in root.files}

\* manager.py:208  assert size != ONLY_SIZE
SizeClashesWithSentinel(root) ==
    \E f \in root.files : f.in_subdir /\ f.stem = ONLY_SIZE

\* manager.py:105-116  self._name_to_layout[paradigm_name][size] = layout for
\* every tuple of the root. One root never yields a (name, size) twice, so the
\* order of the directory listing does not change the mapping.
_load_layouts_from(registry, root_name, root) ==
    IF ~root.exists THEN registry
    ELSE LET yielded == _load_all_layouts_in_directory(root_name, root)
             names == {t[1] : t \in yielded}
             old(n) == IF n \in DOMAIN registry THEN registry[n] ELSE EmptyDict
             sizes(n) == {t[2] : t \in {u \in yielded : u[1] = n}}
         IN [n \in (DOMAIN registry) \cup names |->
               [sz \in (DOMAIN old(n)) \cup sizes(n) |->
                  IF sz \in sizes(n)
                  THEN (CHOOSE t \in yielded : t[1] = n /\ t[2] = sz)[3]
                  ELSE old(n)[sz]]]

\* manager.py:33-38  ParadigmManager.__init__
LoadedRegistry(dir) ==
    _load_layouts_from(_load_layouts_from(EmptyDict, "static", dir.static),
                       "dynamic", dir.dynamic)

\* manager.py:145-147  {element: index for index, element in enumerate(ordered_sizes)}
SizeToOrder(ordered_sizes) ==
    [element \in Range(ordered_sizes) |->
        CHOOSE index \in 0..(Len(ordered_sizes) - 1) :
            /\ ordered_sizes[index + 1] = element
            /\ \A later \in (index + 1)..(Len(ordered_sizes) - 1) :
                  ordered_sizes[later + 1] # element]

\* Paradigm values: None, layout.as_static_paradigm(), layout.fill(forms).
NoParadigm == [kind |-> "None", layout |-> NoLayout, forms |-> <<>>]
as_static_paradigm(layout) == [kind |-> "static", layout |-> layout, forms |-> <<>>]
fill(layout, template2forms) ==
    [kind |-> "filled", layout |-> layout, forms |-> template2forms]

\* The generator FST behind Transducer.bulk_lookup: the wordforms of each
\* analysis, none for an analysis it cannot realize.
Analyses == {"nipaw+V+AI+Ind+3Sg", "nipaw+V+AI+Ind+12Pl"}
Realizations(analysis) ==
    IF analysis = "nipaw+V+AI+Ind+3Sg" THEN {"nipaw"} ELSE {}

\* manager.py:224  Transducer.bulk_lookup: every string asked for is a key
bulk_lookup(strings) == [a \in Range(strings) |-> Realizations(a)]

\* layout.generate_fst_analyses(lemma): the analysis of each template cell,
\* cells numbered in the mapping's order.
GeneratedAnalyses == SeqsUpTo(Analyses, MaxCells)

\* What a query leaves behind: the registry as the query left it, how the
\* call ended, what it returned, the bulk_lookup calls it made and the errors
\* it logged.
Outcome(registry, status, paradigm) ==
    [registry |-> registry, status |-> status, paradigm |-> paradigm,
     sizes |-> <<>>, unordered |-> {}, answer |-> FALSE,
     lookups |-> <<>>, logged |-> <<>>]

\* dict.get(name): a defaultdict's get() adds no key
Registered(registry, name) == name \in DOMAIN registry
Truthy(size_options) == DOMAIN size_options # {}

\* static_paradigm_for with self._name_to_layout[name] for .get(name): indexing
\* the defaultdict adds an empty entry for a name it does not have.
static_paradigm_for_indexing(registry, name, size) ==
    IF Registered(registry, name) /\ Truthy(registry[name])
    THEN IF size \in DOMAIN registry[name]
         THEN Outcome(registry, "ok", as_static_paradigm(registry[name][size]))
         ELSE Outcome(registry, "KeyError", NoParadigm)
    ELSE Outcome(DictSet(registry, name, EmptyDict), "ok", NoParadigm)

\* manager.py:61-70
static_paradigm_for(registry, name, size) ==
    IF Registered(registry, name) /\ Truthy(registry[name])
    THEN IF size \in DOMAIN registry[name]
         THEN Outcome(registry, "ok", as_static_paradigm(registry[name][size]))
         ELSE Outcome(registry, "KeyError", NoParadigm)
    ELSE Outcome(registry, "ok", NoParadigm)

\* _inflect with one lookup per template cell instead of one for the layout.
_inflect_per_cell(registry, layout, template2analysis) ==
    [Outcome(registry, "ok",
             fill(layout, [template \in DOMAIN template2analysis |->
                              bulk_lookup(<<template2analysis[template]>>)
                                  [template2analysis[template]]]))
       EXCEPT !.lookups = [template \in DOMAIN template2analysis |->
                              <<template2analysis[template]>>]]

\* manager.py:118-128
_inflect(registry, layout, template2analysis) ==
    LET strings == template2analysis          \* list(template2analysis.values())
        analysis2forms == bulk_lookup(strings)
        template2forms ==
            [template \in DOMAIN template2analysis |->
                analysis2forms[template2analysis[template]]]
    IN [Outcome(registry, "ok", fill(layout, template2forms))
          EXCEPT !.lookups = <<strings>>]

\* manager.py:72-85
dynamic_paradigm_for(registry, word_class, size, template2analysis) ==
    IF ~Registered(registry, word_class)
    THEN Outcome(registry, "ok", NoParadigm)
    ELSE IF size \notin DOMAIN registry[word_class]
    THEN Outcome(registry, "KeyError", NoParadigm)
    ELSE _inflect(registry, registry[word_class][size], template2analysis)

\* manager.py:87-103  ParadigmManager.sizes_of: the keys, or the error
_sizes_or_error_of(registry, paradigm_name) ==
    IF Registered(registry, paradigm_name) /\ Truthy(registry[paradigm_name])
    THEN [Outcome(registry, "ok", NoParadigm)
            EXCEPT !.unordered = DOMAIN registry[paradigm_name]]
    ELSE Outcome(registry, "ParadigmDoesNotExistError", NoParadigm)

\* sorted(keys, key=order.__getitem__): the keys by ascending index
SortedByOrder(keys, order) ==
    CHOOSE s \in [1..Cardinality(keys) -> keys] :
        /\ Range(s) = keys
        /\ \A i, j \in DOMAIN s : i < j => order[s[i]] < order[s[j]]

\* manager.py:149-158  ParadigmManagerWithExplicitSizes.sizes_of
sizes_of(registry, order, paradigm_name) ==
    LET unsorted_results == _sizes_or_error_of(registry, paradigm_name) IN
    IF unsorted_results.status # "ok" THEN unsorted_results
    ELSE IF \E element \in unsorted_results.unordered : element \notin DOMAIN order
    THEN Outcome(registry, "KeyError", NoParadigm)
    ELSE [unsorted_results EXCEPT
            !.sizes = SortedByOrder(unsorted_results.unordered, order)]

\* The undeclared sizes with the sentinel not exempted.
Undeclared_no_sentinel(registry, order) ==
    {ps \in (DOMAIN registry) \X (SizeNames \cup {ONLY_SIZE}) :
        /\ ps[2] \in DOMAIN registry[ps[1]]
        /\ ps[2] \notin DOMAIN order}

\* manager.py:165-172  the (paradigm, size) pairs the loops can stop at: a size
\* that is not valid, or a paradigm whose super().sizes_of raises.
Undeclared(registry, order) ==
    {ps \in (DOMAIN registry) \X (SizeNames \cup {ONLY_SIZE}) :
        /\ ps[2] \in DOMAIN registry[ps[1]]
        /\ ps[2] \notin {ONLY_SIZE} \cup DOMAIN order}
Unlistable(registry) ==
    {<<paradigm, "">> : paradigm \in {n \in DOMAIN registry : ~Truthy(registry[n])}}

\* The loops without the early return: every undeclared pair is logged.
all_sizes_fully_specified_log_all(registry, order, first) ==
    IF Undeclared(registry, order) \cup Unlistable(registry) = {}
    THEN [Outcome(registry, "ok", NoParadigm) EXCEPT !.answer = TRUE]
    ELSE IF first \in Unlistable(registry)
    THEN Outcome(registry, "ParadigmDoesNotExistError", NoParadigm)
    ELSE [Outcome(registry, "ok", NoParadigm) EXCEPT
            !.logged = CHOOSE all \in [1..Cardinality(Undeclared(registry, order))
                                         -> Undeclared(registry, order)] :
                           Range(all) = Undeclared(registry, order)]

\* manager.py:160-181  the loops stop at `first`, the first pair of the dicts'
\* iteration order they can stop at; with no such pair they run to the end.
all_sizes_fully_specified(registry, order, first) ==
    IF Undeclared(registry, order) \cup Unlistable(registry) = {}
    THEN [Outcome(registry, "ok", NoParadigm) EXCEPT !.answer = TRUE]
    ELSE IF first \in Unlistable(registry)
    THEN Outcome(registry, "ParadigmDoesNotExistError", NoParadigm)
    ELSE [Outcome(registry, "ok", NoParadigm) EXCEPT !.logged = <<first>>]

\* The dicts iterate in insertion order: what static/ yielded comes before
\* what only dynamic/ yielded; within one root the order is the listing's.
InsertedBy(dir, name, size) ==
    IF \E t \in _load_all_layouts_in_directory("static", dir.static) :
          t[1] = name /\ (size = "" \/ t[2] = size)
    THEN 1 ELSE 2
CanComeFirst(dir, first, stops) ==
    \A other \in stops :
        IF other[1] = first[1]
        THEN InsertedBy(dir, first[1], first[2]) <= InsertedBy(dir, other[1], other[2])
        ELSE InsertedBy(dir, first[1], "") <= InsertedBy(dir, other[1], "")

NoQuery ==
    [op |-> "none", name |-> "", size |-> "", template2analysis |-> <<>>,
     out |-> Outcome(EmptyDict, "none", NoParadigm)]

InitParadigm ==
    /\ pm_pc = "new"
    /\ layout_directory = [static |-> MissingRoot, dynamic |-> MissingRoot]
    /\ name_to_layout = EmptyDict
    /\ size_to_order = EmptyDict
    /\ pm_call = NoQuery

\* ParadigmManagerWithExplicitSizes(layout_directory, generation_fst,
\*                                  ordered_sizes=...)
ParadigmManagerInit ==
    /\ pm_pc = "new"
    /\ \E static \in Roots, dynamic \in Roots,
          ordered_sizes \in SeqsUpTo(SizeNames, MaxOrderedSizes) :
         LET dir == [static |-> static, dynamic |-> dynamic] IN
         /\ layout_directory' = dir
         /\ IF (static.exists /\ SizeClashesWithSentinel(static))
               \/ (dynamic.exists /\ SizeClashesWithSentinel(dynamic))
            THEN /\ pm_pc' = "failed"
                 /\ UNCHANGED <<name_to_layout, size_to_order>>
            ELSE /\ pm_pc' = "loaded"
                 /\ name_to_layout' = LoadedRegistry(dir)
                 /\ size_to_order' = SizeToOrder(ordered_sizes)
    /\ UNCHANGED <<pm_call, tm_vars, lx_vars>>

Query(op, name, size, template2analysis, out) ==
    /\ pm_call' = [op |-> op, name |-> name, size |-> size,
                   template2analysis |-> template2analysis, out |-> out]
    /\ name_to_layout' = out.registry
    /\ UNCHANGED <<pm_pc, layout_directory, size_to_order, tm_vars, lx_vars>>

\* manager.static_paradigm_for(name, size)
StaticParadigmFor ==
    /\ pm_pc = "loaded"
    /\ \E name \in ParadigmNames, size \in SizeNames \cup {ONLY_SIZE} :
         Query("static_paradigm_for", name, size, <<>>,
               static_paradigm_for(name_to_layout, name, size))

\* manager.dynamic_paradigm_for(lemma=..., word_class=name, size=size)
DynamicParadigmFor ==
    /\ pm_pc = "loaded"
    /\ \E name \in ParadigmNames, size \in SizeNames \cup {ONLY_SIZE} :
         \E template2analysis \in
               IF Registered(name_to_layout, name) /\ size \in DOMAIN name_to_layout[name]
               THEN GeneratedAnalyses ELSE {<<>>} :
            Query("dynamic_paradigm_for", name, size, template2analysis,
                  dynamic_paradigm_for(name_to_layout, name, size, template2analysis))

\* manager.sizes_of(name)
SizesOf ==
    /\ pm_pc = "loaded"
    /\ \E name \in ParadigmNames :
         Query("sizes_of", name, "", <<>>,
               sizes_of(name_to_layout, size_to_order, name))

\* manager.all_sizes_fully_specified()
AllSizesFullySpecified ==
    /\ pm_pc = "loaded"
    /\ LET stops == Undeclared(name_to_layout, size_to_order)
                      \cup Unlistable(name_to_layout)
       IN \E first \in IF stops = {} THEN {<<"", "">>} ELSE stops :
            /\ stops # {} => CanComeFirst(layout_directory, first, stops)
            /\ Query("all_sizes_fully_specified", "", "", <<>>,
                     all_sizes_fully_specified(name_to_layout, size_to_order, first))

NextParadigm ==
    \/ ParadigmManagerInit
    \/ StaticParadigmFor
    \/ DynamicParadigmFor
    \/ SizesOf
    \/ AllSizesFullySpecified

(***************************************************************************)
(* get_lexical_information                                                 *)
(***************************************************************************)

MaxTokens == 3      \* "+"-separated tokens of an analysis
MaxCandidates == 2  \* records fetch_preverbs returns

RdplW == <<"R", "d", "p", "l", "W">>
RdplS == <<"R", "d", "p", "l", "S">>

\* The tokens analyses are put together from: the two reduplication markers,
\* preverb tags, lemmas, and the empty token that "++" or a trailing "+" gives.
Tokens ==
    {RdplW, RdplS,
     <<"P", "V", "/", "e">>, <<"P", "V", "/", "K", "î">>, <<"P", "V", "/", "k", "a">>,
     <<"n", "i", "p", "â", "w">>, <<"â", "c", "i", "m", "o", "w">>, <<>>}

RECURSIVE JoinPlus(_)
JoinPlus(tokens) ==
    IF tokens = <<>> THEN <<>>
    ELSE IF Len(tokens) = 1 THEN tokens[1]
    ELSE tokens[1] \o <<"+">> \o JoinPlus(Tail(tokens))

\* str.split(sep) for a one-character separator
RECURSIVE Split(_, _)
Split(str, sep) ==
    LET at == {i \in DOMAIN str : str[i] = sep} IN
    IF at = {} THEN <<str>>
    ELSE LET i == CHOOSE k \in at : \A l \in at : k <= l
         IN <<SubSeq(str, 1, i - 1)>> \o Split(SubSeq(str, i + 1, Len(str)), sep)

\* str.lower() of one character
UpperCase ==
    <<"A", "B", "C", "D", "E", "F", "G", "H", "I", "J", "K", "L", "M", "N", "O",
      "P", "Q", "R", "S", "T", "U", "V", "W", "X", "Y", "Z", "Â", "Ê", "Î", "Ô">>
LowerCase ==
    <<"a", "b", "c", "d", "e", "f", "g", "h", "i", "j", "k", "l", "m", "n", "o",
      "p", "q", "r", "s", "t", "u", "v", "w", "x", "y", "z", "â", "ê", "î", "ô">>
\* lower() left out: the letter is compared as it is written.
Lower_as_written(char) == char

Lower(char) ==
    IF \E k \in DOMAIN UpperCase : UpperCase[k] = char
    THEN LowerCase[CHOOSE k \in DOMAIN UpperCase : UpperCase[k] = char]
    ELSE char

\* presentation.py:246
consonants == <<"c", "h", "k", "m", "n", "p", "s", "t", "w", "y">>

\* presentation.py:245-255  generate_reduplication_string; i counts from 0.
\* tags[i + 1] and [...][0] raise IndexError when there is nothing there.
IndexError == <<"<IndexError>">>
generate_reduplication_string(result_analysis_tags, tag, i) ==
    IF i + 2 > Len(result_analysis_tags) THEN IndexError
    ELSE LET word == result_analysis_tags[i + 2]
             segments == Split(word, "/")
             last == segments[Len(segments)]
         IN IF last = <<>> THEN IndexError
            ELSE LET letter == last[1] IN
                 IF tag = RdplW
                 THEN IF Lower(letter) \in Range(consonants)
                      THEN <<letter>> \o <<"a", "-">> ELSE <<"a", "y", "-">>
                 ELSE IF Lower(letter) \in Range(consonants)
                      THEN <<letter>> \o <<"â", "h", "-">> ELSE <<"â", "h", "-">>

\* LABELS.linguistic_short.get(tag): "Preverb: ê-" for PV/e, "" for PV/ka, and
\* None for a tag the table does not have.
NoLabel == <<"<None>">>
linguistic_short(tag) ==
    IF tag = <<"P", "V", "/", "e">>
    THEN <<"P", "r", "e", "v", "e", "r", "b", ":", " ", "ê", "-">>
    ELSE IF tag = <<"P", "V", "/", "k", "a">> THEN <<>>
    ELSE NoLabel

\* The Wordform records lookup.fetch_preverbs can answer with.
Wordform(id, text, is_lemma) == [id |-> id, text |-> text, is_lemma |-> is_lemma]
PreverbRecords ==
    {Wordform(1, <<"ê", "-">>, TRUE), Wordform(2, <<"e", "-">>, TRUE),
     Wordform(3, <<"ê">>, TRUE)}

\* str.strip("-"): the hyphens at both ends go
RECURSIVE StripHyphens(_)
StripHyphens(text) ==
    IF text # <<>> /\ Head(text) = "-" THEN StripHyphens(Tail(text))
    ELSE IF text # <<>> /\ text[Len(text)] = "-"
    THEN StripHyphens(SubSeq(text, 1, Len(text) - 1))
    ELSE text

Min2(a, b) == IF a <= b THEN a ELSE b

\* get_modified_distance: an edit distance between two strings
RECURSIVE get_modified_distance(_, _)
get_modified_distance(a, b) ==
    IF a = <<>> THEN Len(b)
    ELSE IF b = <<>> THEN Len(a)
    ELSE Min2(get_modified_distance(Tail(a), Tail(b))
                 + (IF Head(a) = Head(b) THEN 0 ELSE 1),
              Min2(get_modified_distance(Tail(a), b) + 1,
                   get_modified_distance(a, Tail(b)) + 1))

\* min() answering with the last record of the least distance.
ClosestPreverb_last(normative_preverb_text, preverb_results) ==
    LET d(k) == get_modified_distance(normative_preverb_text,
                                      StripHyphens(preverb_results[k].text))
        best == CHOOSE k \in DOMAIN preverb_results :
                    /\ \A l \in DOMAIN preverb_results : d(k) <= d(l)
                    /\ \A l \in (k + 1)..Len(preverb_results) : d(l) > d(k)
    IN preverb_results[best]

\* presentation.py:199-205  min(preverb_results, key=...): the first record of
\* the least distance
ClosestPreverb(normative_preverb_text, preverb_results) ==
    LET d(k) == get_modified_distance(normative_preverb_text,
                                      StripHyphens(preverb_results[k].text))
        best == CHOOSE k \in DOMAIN preverb_results :
                    /\ \A l \in DOMAIN preverb_results : d(k) <= d(l)
                    /\ \A l \in 1..(k - 1) : d(l) > d(k)
    IN preverb_results[best]

\* presentation.py:121-141  serialize_wordform: the fields (of model_to_dict)
\* that tell the record; a Wordform that was never saved has no id.
NoId == 0
serialize_wordform(wordform) ==
    [text |-> wordform.text, definitions |-> <<>>, id |-> wordform.id,
     is_lemma |-> wordform.is_lemma]

\* presentation.py:217-226  _ReduplicationResult(text=..., definitions=[...])
_ReduplicationResult(text, definitions) ==
    [text |-> text, definitions |-> definitions, id |-> NoId, is_lemma |-> FALSE]

\* presentation.py:227, 231  _type is typing's Literal["..."], not the string
LiteralReduplication == "Literal['Reduplication']"
LiteralPreverb == "Literal['Preverb']"

\* presentation.py:26-31
_LexicalEntry(entry, type, index, original_tag) ==
    [entry |-> entry, type |-> type, index |-> index, original_tag |-> original_tag]

StartsWithPV(tag) == Len(tag) >= 3 /\ SubSeq(tag, 1, 3) = <<"P", "V", "/">>

\* presentation.py:187-214  the preverb record of a PV/ tag, or none
NoPreverb == Wordform(NoId, <<"<None>">>, FALSE)

\* The PV/ branch without its else: no record when nothing was fetched.
PreverbResult_no_placeholder(tag, fetched) ==
    LET ling_short == linguistic_short(tag) IN
    IF ling_short = NoLabel \/ ling_short = <<>> THEN NoPreverb
    ELSE IF fetched # <<>>
    THEN ClosestPreverb(SubSeq(ling_short, 10, Len(ling_short) - 1), fetched)
    ELSE NoPreverb

PreverbResult(tag, fetched) ==
    LET ling_short == linguistic_short(tag) IN
    IF ling_short = NoLabel \/ ling_short = <<>> THEN NoPreverb
    ELSE LET normative_preverb_text ==
                 \* ling_short[len("Preverb: "):-1]
                 SubSeq(ling_short, 10, Len(ling_short) - 1)
         IN IF fetched # <<>>
            THEN ClosestPreverb(normative_preverb_text, fetched)
            ELSE Wordform(NoId, normative_preverb_text, TRUE)

\* presentation.py:176-240  the body of the loop for the tag at index i
\* (from 0): the entries it appends, unless it raises IndexError
LexicalEntriesAt(result_analysis_tags, i, fetched) ==
    LET tag == result_analysis_tags[i + 1]
        appends(entries) == [raised |-> FALSE, entries |-> entries]
    IN
    IF tag \in {RdplW, RdplS}
    THEN LET reduplication_string ==
                 generate_reduplication_string(result_analysis_tags, tag, i)
         IN IF reduplication_string = IndexError
            THEN [raised |-> TRUE, entries |-> <<>>]
            ELSE appends(<<_LexicalEntry(
                     _ReduplicationResult(reduplication_string,
                        <<IF tag = RdplS THEN "Strong reduplication"
                          ELSE "Weak Reduplication">>),
                     LiteralReduplication, i, tag)>>)
    ELSE IF StartsWithPV(tag) /\ PreverbResult(tag, fetched) # NoPreverb
    THEN appends(<<_LexicalEntry(serialize_wordform(PreverbResult(tag, fetched)),
                                 LiteralPreverb, i, tag)>>)
    ELSE appends(<<>>)

\* presentation.py:176-240  the loop; it ends at the first IndexError
RECURSIVE LexicalEntriesFrom(_, _, _, _)
LexicalEntriesFrom(result_analysis_tags, i, fetched, lexical_information) ==
    IF i >= Len(result_analysis_tags)
    THEN [status |-> "ok", entries |-> lexical_information]
    ELSE LET new == LexicalEntriesAt(result_analysis_tags, i, fetched) IN
         IF new.raised THEN [status |-> "IndexError", entries |-> <<>>]
         ELSE LexicalEntriesFrom(result_analysis_tags, i + 1, fetched,
                                 lexical_information \o new.entries)

\* One step of sorted(): x behind the entries whose index is not greater.
InsertByIndex(sorted, x) ==
    LET n == Cardinality({k \in DOMAIN sorted : sorted[k].index <= x.index})
    IN SubSeq(sorted, 1, n) \o <<x>> \o SubSeq(sorted, n + 1, Len(sorted))

\* presentation.py:243  sorted(lexical_information, key=lambda x: x.index)
RECURSIVE SortedByIndex(_)
SortedByIndex(entries) ==
    IF entries = <<>> THEN <<>>
    ELSE InsertByIndex(SortedByIndex(SubSeq(entries, 1, Len(entries) - 1)),
                       entries[Len(entries)])

\* presentation.py:171-243
get_lexical_information(analysis, fetched) ==
    LET result_analysis_tags == Split(analysis, "+")
        looped == LexicalEntriesFrom(result_analysis_tags, 0, fetched, <<>>)
    IN IF looped.status # "ok" THEN looped
       ELSE [looped EXCEPT !.entries = SortedByIndex(looped.entries)]

\* presentation.py:71-72  [entry for entry in self.lexical_info if entry.type == type]
entries_of_type(lexical_information, type) ==
    LET Test(entry) == entry.type = type
    IN SelectSeq(lexical_information, Test)

\* The call asks fetch_preverbs when a PV/ tag has a label.
AsksForPreverbs(analysis) ==
    \E tag \in Range(Split(analysis, "+")) :
        StartsWithPV(tag) /\ linguistic_short(tag) \notin {NoLabel, <<>>}

InitLexical ==
    /\ lx_pc = "idle"
    /\ result_analysis = <<>>
    /\ preverbs_found = <<>>
    /\ lexical_info = [status |-> "none", entries |-> <<>>]
    /\ preverbs = <<>>
    /\ reduplication = <<>>

\* presentation.py:69-72  PresentationResult.__init__: get_lexical_information
\* (result_analysis), with the database answering fetch_preverbs with
\* `fetched`, and the two lists taken from what it returns. When the call
\* raises, so does __init__, and the lists are never set.
GetLexicalInformation ==
    /\ lx_pc = "idle"
    /\ \E tokens \in SeqsUpTo(Tokens, MaxTokens) :
         \E fetched \in IF AsksForPreverbs(JoinPlus(tokens))
                        THEN SeqsUpTo(PreverbRecords, MaxCandidates) ELSE {<<>>} :
            /\ result_analysis' = JoinPlus(tokens)
            /\ preverbs_found' = fetched
            /\ lexical_info' = get_lexical_information(JoinPlus(tokens), fetched)
            /\ preverbs' =
                 entries_of_type(
                     get_lexical_information(JoinPlus(tokens), fetched).entries,
                     "Preverb")
            /\ reduplication' =
                 entries_of_type(
                     get_lexical_information(JoinPlus(tokens), fetched).entries,
                     "Reduplication")
    /\ lx_pc' = "returned"
    /\ UNCHANGED <<tm_vars, pm_vars>>

NextLexical == GetLexicalInformation

(***************************************************************************)
(* Specifications                                                          *)
(***************************************************************************)

Init == InitTagMap /\ InitParadigm /\ InitLexical

SpecLexical == Init /\ [][NextLexical]_vars

SpecTagMap == Init /\ [][NextTagMap]_vars

SpecParadigm == Init /\ [][NextParadigm]_vars

(***************************************************************************)
(* TagMap: properties                                                      *)
(***************************************************************************)

Called == tm_pc = "called"
Succeeded == tm_pc = "called" /\ map_result.status = "ok"

PrecOf(tag) == tagmap.precedences[tag]
OfPrecedence(tags, p) == SelectSeq(tags, LAMBDA t : PrecOf(t) = p)

\* The working list that rule i left behind.
WorkAfter(i) ==
    IF i = Len(map_result.work) THEN map_result.remaining ELSE map_result.work[i + 1]

\* t is an in-order, not necessarily contiguous, subsequence of o.
EmbedsInOrder(o, t) ==
    \E f \in [DOMAIN t -> DOMAIN o] :
        /\ \A k \in DOMAIN t : o[f[k]] = t[k]
        /\ \A k, l \in DOMAIN t : k < l => f[k] < f[l]

\* The targets of the multi-tag rules that fired, in registration order.
FiredRules ==
    SelectSeq([i \in DOMAIN map_result.fired |-> i],
              LAMBDA i : map_result.fired[i] /\ tagmap.multi_mappings[i].target # None)
FiredTargets == [k \in DOMAIN FiredRules |-> tagmap.multi_mappings[FiredRules[k]].target]

\* The single-tag targets of the remaining tags, in input order: each target
\* once, at its first occurrence, unless a multi-tag rule emitted it already.
SingleTargetAt(i) == tagmap.tag_mapping[map_result.remaining[i]]
KeptPositions ==
    SelectSeq([i \in DOMAIN map_result.remaining |-> i],
              LAMBDA i : /\ SingleTargetAt(i) # None
                         /\ SingleTargetAt(i) \notin Range(FiredTargets)
                         /\ \A j \in 1..(i - 1) : SingleTargetAt(j) # SingleTargetAt(i))
SingleTargets == [k \in DOMAIN KeptPositions |-> SingleTargetAt(KeptPositions[k])]

\* The defaults of the precedences that no collected tag has, in
\* registration order.
CollectedPrecedences == {PrecOf(t) : t \in Range(FiredTargets \o SingleTargets)}
UnusedDefaults ==
    SelectSeq(tagmap.defaults_by_precedence,
              LAMBDA e : e[1] \notin CollectedPrecedences)
InjectedDefaults == [k \in DOMAIN UnusedDefaults |-> UnusedDefaults[k][2]]

\* C1: a successful map_tags returns the collected tags in non-decreasing
\* precedence, and the tags of one precedence keep the order in which they
\* were collected: fired multi-tag targets in registration order, then
\* single-tag targets in input order, then injected defaults in registration
\* order.
C1_StableSortedByPrecedence ==
    Succeeded =>
        /\ \A i, j \in DOMAIN map_result.tags :
              i < j => PrecOf(map_result.tags[i]) <= PrecOf(map_result.tags[j])
        /\ Len(map_result.tags) = Len(FiredTargets \o SingleTargets \o InjectedDefaults)
        /\ \A p \in Precedences :
              OfPrecedence(map_result.tags, p)
                = OfPrecedence(FiredTargets \o SingleTargets \o InjectedDefaults, p)

\* C1 witness: a successful call whose collected tags the sort had to reorder.
C1_Witness ==
    /\ Succeeded
    /\ Len(map_result.tags) >= 2
    /\ map_result.tags # FiredTargets \o SingleTargets \o InjectedDefaults

C3_MultiTagConsumption ==
    Called =>
        /\ Len(map_result.work) = Len(tagmap.multi_mappings)
        /\ Len(map_result.fired) = Len(tagmap.multi_mappings)
        /\ (IF tagmap.multi_mappings = <<>> THEN map_result.remaining
            ELSE map_result.work[1]) = map_input
        /\ \A i \in DOMAIN tagmap.multi_mappings :
              LET rule == tagmap.multi_mappings[i].tags
                  before == map_result.work[i]
              IN /\ map_result.fired[i] <=> EmbedsInOrder(before, rule)
                 /\ WorkAfter(i) =
                      IF map_result.fired[i]
                      THEN SelectSeq(before,
                              LAMBDA x : \A k \in DOMAIN rule : x # rule[k])
                      ELSE before
        /\ map_result.multi_tags = FiredTargets
        /\ map_result.status = "UnknownTagError" =>
              map_result.error_tag \in Range(map_result.remaining)
        /\ map_result.status = "ok" =>
              Range(map_result.single_tags)
                \subseteq {SingleTargetAt(i) : i \in DOMAIN map_result.remaining}

\* C3 witness: a two-tag rule fired on a list in which its tags are not
\* adjacent, and the tag between them stayed.
C3_Witness ==
    /\ Called
    /\ \E i \in DOMAIN map_result.fired :
          /\ map_result.fired[i]
          /\ Len(tagmap.multi_mappings[i].tags) = 2
          /\ Len(map_result.work[i]) = 3
          /\ map_result.work[i][1] = tagmap.multi_mappings[i].tags[1]
          /\ map_result.work[i][3] = tagmap.multi_mappings[i].tags[2]
          /\ WorkAfter(i) = <<map_result.work[i][2]>>

\* The positions of the remaining tags that have no single-tag mapping.
Unmapped ==
    {i \in DOMAIN map_result.remaining :
        map_result.remaining[i] \notin DOMAIN tagmap.tag_mapping}

\* C4: when a tag left after multi-tag consumption has no single-tag mapping,
\* map_tags raises UnknownTagError carrying the first such tag and returns
\* nothing; otherwise it raises no UnknownTagError.
C4_UnknownTagRaised ==
    Called =>
        /\ Unmapped # {} <=> map_result.status = "UnknownTagError"
        /\ Unmapped # {} =>
              /\ \E i \in Unmapped :
                    /\ \A j \in Unmapped : i <= j
                    /\ map_result.error_tag = map_result.remaining[i]
              /\ map_result.tags = <<>>

\* C4 witness: the call raised for a tag behind a mapped one, after a
\* multi-tag rule had consumed other tags.
C4_Witness ==
    /\ Called
    /\ map_result.status = "UnknownTagError"
    /\ Len(map_result.remaining) < Len(map_input)
    /\ \/ Len(map_result.remaining) = 1
       \/ map_result.error_tag # map_result.remaining[1]

\* The target a definition produces: for COPY_TAG_NAME on a single tag, the
\* tag's name moved in front of the "+".
ProducedTarget(d) ==
    IF d.source.kind = "single" /\ d.target = COPY_TAG_NAME
    THEN SubSeq(d.source.tags[1], 2, Len(d.source.tags[1])) \o <<"+">>
    ELSE d.target

TwoDefaultsShareAPrecedence ==
    \E i, j \in DOMAIN tag_definitions :
        /\ i # j
        /\ tag_definitions[i].source.kind = "default"
        /\ tag_definitions[j].source.kind = "default"
        /\ tag_definitions[i].prec = tag_definitions[j].prec

CopyWithMultiTag ==
    \E i \in DOMAIN tag_definitions :
        /\ tag_definitions[i].source.kind = "multi"
        /\ tag_definitions[i].target = COPY_TAG_NAME

SameTargetTwoPrecedences ==
    \E i, j \in DOMAIN tag_definitions :
        /\ ProducedTarget(tag_definitions[i]) # None
        /\ ProducedTarget(tag_definitions[i]) = ProducedTarget(tag_definitions[j])
        /\ tag_definitions[i].prec # tag_definitions[j].prec

\* C5: constructing a TagMap fails, whatever the order of the definitions,
\* when two DEFAULT rules share a precedence, when COPY_TAG_NAME comes with a
\* multi-tag source, or when two rules produce one target tag with different
\* precedences.
C5_ConstructionFails ==
    (tm_pc # "new"
        /\ (TwoDefaultsShareAPrecedence \/ CopyWithMultiTag \/ SameTargetTwoPrecedences))
    => (tm_pc = "failed" /\ tagmap.error # "none")

\* C5 witness: the second definition gives the first one's target another
\* precedence, and the construction raised on it.
C5_Witness ==
    /\ tm_pc = "failed"
    /\ tagmap.error = "conflicting precedences"
    /\ Len(tag_definitions) = 2
    /\ ~TwoDefaultsShareAPrecedence
    /\ ~CopyWithMultiTag

(***************************************************************************)
(* ParadigmManager: properties                                             *)
(***************************************************************************)

Asked(op) == pm_pc = "loaded" /\ pm_call.op = op

\* The name is a key of the registry and the size a key of its sizes.
HasLayout(name, size) ==
    name \in DOMAIN name_to_layout /\ size \in DOMAIN name_to_layout[name]

\* C6 (as stated): static_paradigm_for and dynamic_paradigm_for return the
\* absent value and do not raise when the name is unregistered, and also when
\* the name is registered but the size is not registered under it.
C6_AbsentForUnknownNameOrSize ==
    ((Asked("static_paradigm_for") \/ Asked("dynamic_paradigm_for"))
        /\ ~HasLayout(pm_call.name, pm_call.size))
    => (pm_call.out.status = "ok" /\ pm_call.out.paradigm = NoParadigm)

\* C7: no query adds, removes or changes an entry of the registry the load
\* built, so sizes_of raises ParadigmDoesNotExistError for a name that was
\* not loaded, whatever was asked before.
C7_QueriesKeepTheLoadedRegistry ==
    pm_pc = "loaded" =>
        /\ name_to_layout = LoadedRegistry(layout_directory)
        /\ pm_call.out.status # "none" => pm_call.out.registry = name_to_layout
        /\ (pm_call.op = "sizes_of"
              /\ pm_call.name \notin DOMAIN LoadedRegistry(layout_directory))
           => pm_call.out.status = "ParadigmDoesNotExistError"

\* C7 witness: sizes_of raised for a name that was not loaded, on a manager
\* that has another paradigm.
C7_Witness ==
    /\ Asked("sizes_of")
    /\ pm_call.out.status = "ParadigmDoesNotExistError"
    /\ name_to_layout # EmptyDict
    /\ pm_call.name \notin DOMAIN name_to_layout

Filled == Asked("dynamic_paradigm_for") /\ HasLayout(pm_call.name, pm_call.size)

\* The wordforms each cell ends up with are those of the cell's own analysis.
CellsHoldTheirOwnForms ==
    /\ pm_call.out.status = "ok"
    /\ pm_call.out.paradigm.kind = "filled"
    /\ pm_call.out.paradigm.layout = name_to_layout[pm_call.name][pm_call.size]
    /\ DOMAIN pm_call.out.paradigm.forms = DOMAIN pm_call.template2analysis
    /\ \A cell \in DOMAIN pm_call.template2analysis :
          pm_call.out.paradigm.forms[cell]
            = Realizations(pm_call.template2analysis[cell])

SomeSizeUndeclared ==
    \E name \in DOMAIN name_to_layout :
        \E size \in DOMAIN name_to_layout[name] :
            size # ONLY_SIZE /\ size \notin DOMAIN size_to_order

\* C9: all_sizes_fully_specified() does not raise; it returns false exactly
\* when some registered paradigm has a size that is neither the sentinel nor
\* in the declared order, and true otherwise.
C9_FullySpecifiedIffAllDeclared ==
    Asked("all_sizes_fully_specified") =>
        /\ pm_call.out.status = "ok"
        /\ pm_call.out.answer = ~SomeSizeUndeclared

\* C9 witness: the answer is false on a manager that also holds a paradigm
\* with the sentinel size only.
C9_Witness ==
    /\ Asked("all_sizes_fully_specified")
    /\ pm_call.out.answer = FALSE
    /\ \E name \in DOMAIN name_to_layout : DOMAIN name_to_layout[name] = {ONLY_SIZE}

(***************************************************************************)
(* get_lexical_information: properties                                     *)
(***************************************************************************)

Returned == lx_pc = "returned" /\ lexical_info.status = "ok"

AnalysisTags == Split(result_analysis, "+")

\* The first character behind the last "/" of a token.
FirstOfLastSegment(token) ==
    LET slashes == {k \in DOMAIN token : token[k] = "/"}
        start == IF slashes = {} THEN 1
                 ELSE 1 + CHOOSE k \in slashes : \A l \in slashes : l <= k
    IN token[start]

IsConsonant(char) ==
    char \in {"c", "h", "k", "m", "n", "p", "s", "t", "w", "y",
              "C", "H", "K", "M", "N", "P", "S", "T", "W", "Y"}

ReduplicationText(marker, char) ==
    IF marker = RdplW
    THEN IF IsConsonant(char) THEN <<char, "a", "-">> ELSE <<"a", "y", "-">>
    ELSE IF IsConsonant(char) THEN <<char, "â", "h", "-">> ELSE <<"â", "h", "-">>

EntriesAt(i) ==
    {k \in DOMAIN lexical_info.entries : lexical_info.entries[k].index = i}

\* C10: for a reduplication marker at position i, the entry's text is given
\* by the marker and the first character c of the last "/"-segment of the
\* token at i + 1: weak and consonant c gives c then "a-", weak otherwise
\* "ay-", strong and consonant c gives c then "âh-", strong otherwise "âh-"
\* (consonants are c h k m n p s t w y in either case); and the entry has the
\* one definition "Strong reduplication" or "Weak Reduplication".
C10_ReduplicationText ==
    Returned =>
        \A i \in 0..(Len(AnalysisTags) - 1) :
            AnalysisTags[i + 1] \in {RdplW, RdplS} =>
                /\ Cardinality(EntriesAt(i)) = 1
                /\ \A k \in EntriesAt(i) :
                      LET e == lexical_info.entries[k] IN
                      /\ e.original_tag = AnalysisTags[i + 1]
                      /\ e.entry.text =
                            ReduplicationText(AnalysisTags[i + 1],
                                              FirstOfLastSegment(AnalysisTags[i + 2]))
                      /\ e.entry.definitions =
                            <<IF AnalysisTags[i + 1] = RdplS
                              THEN "Strong reduplication" ELSE "Weak Reduplication">>

\* C10 witness: a strong marker in front of a preverb tag whose last segment
\* starts with a capital consonant.
C10_Witness ==
    /\ Returned
    /\ \E k \in DOMAIN lexical_info.entries :
          /\ lexical_info.entries[k].original_tag = RdplS
          /\ lexical_info.entries[k].entry.text = <<"K", "â", "h", "-">>

\* The canonical preverb text of a label "Preverb: <text>-".
CanonicalText(label) == SubSeq(label, 10, Len(label) - 1)

\* A preverb tag whose label is there and not empty.
Labelled(tag) ==
    StartsWithPV(tag) /\ linguistic_short(tag) # NoLabel /\ linguistic_short(tag) # <<>>

WithoutTrailingHyphen(text) ==
    IF text # <<>> /\ text[Len(text)] = "-" THEN SubSeq(text, 1, Len(text) - 1)
    ELSE text

\* The distance of candidate k from the canonical text of the tag.
CandidateDistance(tag, k) ==
    get_modified_distance(CanonicalText(linguistic_short(tag)),
                          WithoutTrailingHyphen(preverbs_found[k].text))

\* Candidate k is the first of the candidates nearest to the tag's text.
FirstNearest(tag, k) ==
    /\ \A l \in DOMAIN preverbs_found : CandidateDistance(tag, k) <= CandidateDistance(tag, l)
    /\ \A l \in 1..(k - 1) : CandidateDistance(tag, l) > CandidateDistance(tag, k)

\* C11: for a preverb tag whose label resolves and whose lookup returned
\* candidates, the entry is the candidate whose text (trailing hyphen
\* stripped) has the least edit distance from the canonical preverb text,
\* and of several such candidates the one that comes first in the sequence.
C11_FirstNearestCandidate ==
    (Returned /\ preverbs_found # <<>>) =>
        \A i \in 0..(Len(AnalysisTags) - 1) :
            Labelled(AnalysisTags[i + 1]) =>
                /\ EntriesAt(i) # {}
                /\ \A n \in EntriesAt(i) :
                      \E k \in DOMAIN preverbs_found :
                          /\ FirstNearest(AnalysisTags[i + 1], k)
                          /\ lexical_info.entries[n].entry
                               = serialize_wordform(preverbs_found[k])

\* C11 witness: two different candidates at the same least distance, and the
\* entry is the first of them.
C11_Witness ==
    /\ Returned
    /\ Len(preverbs_found) = 2
    /\ preverbs_found[1] # preverbs_found[2]
    /\ \E i \in 0..(Len(AnalysisTags) - 1) :
          /\ Labelled(AnalysisTags[i + 1])
          /\ CandidateDistance(AnalysisTags[i + 1], 1)
               = CandidateDistance(AnalysisTags[i + 1], 2)
          /\ \E n \in EntriesAt(i) :
                lexical_info.entries[n].entry.id = preverbs_found[1].id

HasReduplicationMarker == \E k \in DOMAIN AnalysisTags : AnalysisTags[k] \in {RdplW, RdplS}

\* C12: a preverb tag whose label resolves to a non-empty value and whose
\* lookup returns no candidates yields an entry built from a placeholder
\* record (the canonical preverb text, marked as a lemma, no persisted
\* identity); a preverb tag whose label is absent or empty yields no entry;
\* and neither makes the call raise.
C12_PlaceholderForUnmatchedPreverb ==
    /\ (lx_pc = "returned" /\ ~HasReduplicationMarker) => lexical_info.status = "ok"
    /\ Returned =>
          \A i \in 0..(Len(AnalysisTags) - 1) :
              LET tag == AnalysisTags[i + 1] IN
              /\ (Labelled(tag) /\ preverbs_found = <<>>) =>
                    /\ Cardinality(EntriesAt(i)) = 1
                    /\ \A n \in EntriesAt(i) :
                          /\ lexical_info.entries[n].original_tag = tag
                          /\ lexical_info.entries[n].entry.text
                               = CanonicalText(linguistic_short(tag))
                          /\ lexical_info.entries[n].entry.is_lemma = TRUE
                          /\ lexical_info.entries[n].entry.id = NoId
              /\ (StartsWithPV(tag) /\ ~Labelled(tag)) => EntriesAt(i) = {}

\* C12 witness: one call with a labelled preverb tag that found no candidate
\* and got the placeholder, and a preverb tag with an empty label.
C12_Witness ==
    /\ Returned
    /\ preverbs_found = <<>>
    /\ \E i, j \in 0..(Len(AnalysisTags) - 1) :
          /\ Labelled(AnalysisTags[i + 1])
          /\ \E n \in EntriesAt(i) : lexical_info.entries[n].entry.text = <<"ê">>
          /\ StartsWithPV(AnalysisTags[j + 1])
          /\ linguistic_short(AnalysisTags[j + 1]) = <<>>

\* The entries that come from the tags of a kind, in the order returned.
EntriesFromPreverbTags ==
    LET Test(entry) == StartsWithPV(entry.original_tag)
    IN SelectSeq(lexical_info.entries, Test)
EntriesFromMarkers ==
    LET Test(entry) == entry.original_tag \in {RdplW, RdplS}
    IN SelectSeq(lexical_info.entries, Test)

Ascending(entries) ==
    \A a, b \in DOMAIN entries : a < b => entries[a].index < entries[b].index

\* C13 (as stated): every returned entry has kind "Preverb" if it comes from
\* a preverb tag and "Reduplication" if it comes from a reduplication marker,
\* so the preverbs list is exactly the entries of preverb tags and the
\* reduplication list exactly those of markers, each in ascending position.
C13_KindsSplitTheEntries ==
    Returned =>
        /\ \A n \in DOMAIN lexical_info.entries :
              lexical_info.entries[n].type
                = (IF StartsWithPV(lexical_info.entries[n].original_tag)
                   THEN "Preverb" ELSE "Reduplication")
        /\ preverbs = EntriesFromPreverbTags
        /\ reduplication = EntriesFromMarkers
        /\ Ascending(preverbs)
        /\ Ascending(reduplication)

(***************************************************************************)
(* ParadigmManagerWithExplicitSizes: logging and sizes_of                  *)
(***************************************************************************)

\* The (paradigm, size) pairs whose size is neither the sentinel nor declared.
UndeclaredPairs ==
    {ps \in (DOMAIN name_to_layout) \X SizeNames :
        /\ ps[2] \in DOMAIN name_to_layout[ps[1]]
        /\ ps[2] \notin DOMAIN size_to_order}

\* C14 (as stated): all_sizes_fully_specified() logs one error for each
\* (paradigm, size) pair whose size is neither the sentinel nor declared
\* before it returns false, not only for the first.
C14_EveryViolationLogged ==
    (Asked("all_sizes_fully_specified") /\ UndeclaredPairs # {}) =>
        /\ pm_call.out.answer = FALSE
        /\ Range(pm_call.out.logged) = UndeclaredPairs
        /\ Len(pm_call.out.logged) = Cardinality(UndeclaredPairs)

\* static/ yields a layout of the paradigm (of that size, when one is named).
YieldedByStatic(name, sizes) ==
    \E f \in layout_directory.static.files :
        IF f.in_subdir THEN f.parent = name /\ f.stem \in sizes
        ELSE f.stem = name /\ ONLY_SIZE \in sizes

\* No other undeclared pair is sure to be met before this one: the
\* paradigms come in the order static/, dynamic/ registered them, and so do
\* the sizes of one paradigm.
MetFirst(pair) ==
    \A other \in UndeclaredPairs :
        IF other[1] = pair[1]
        THEN YieldedByStatic(other[1], {other[2]}) => YieldedByStatic(pair[1], {pair[2]})
        ELSE YieldedByStatic(other[1], SizeNames \cup {ONLY_SIZE})
                => YieldedByStatic(pair[1], SizeNames \cup {ONLY_SIZE})

\* C14 (amended): when some pairs are undeclared, all_sizes_fully_specified()
\* logs exactly one error, for the first such pair it meets, and returns
\* false at once.
C14_FirstViolationLogged ==
    (Asked("all_sizes_fully_specified") /\ UndeclaredPairs # {}) =>
        /\ pm_call.out.status = "ok"
        /\ pm_call.out.answer = FALSE
        /\ Len(pm_call.out.logged) = 1
        /\ pm_call.out.logged[1] \in UndeclaredPairs
        /\ MetFirst(pm_call.out.logged[1])

\* C14 witness: two undeclared pairs, one error logged.
C14_Witness ==
    /\ Asked("all_sizes_fully_specified")
    /\ Cardinality(UndeclaredPairs) >= 2
    /\ Len(pm_call.out.logged) = 1
    /\ pm_call.out.answer = FALSE

\* all_sizes_fully_specified() answers true on the loaded manager.
FullySpecified ==
    all_sizes_fully_specified(name_to_layout, size_to_order, <<"", "">>).answer = TRUE

\* C15 (as stated): if all_sizes_fully_specified() returns true after load,
\* sizes_of(name) succeeds for every registered paradigm name, those with
\* only the sentinel size included, and returns exactly the paradigm's
\* registered sizes sorted by the declared order.
C15_SizesOfSucceedsWhenFullySpecified ==
    (Asked("sizes_of") /\ pm_call.name \in DOMAIN name_to_layout /\ FullySpecified) =>
        /\ pm_call.out.status = "ok"
        /\ Range(pm_call.out.sizes) = DOMAIN name_to_layout[pm_call.name]
        /\ Len(pm_call.out.sizes) = Cardinality(DOMAIN name_to_layout[pm_call.name])
        /\ \A a, b \in DOMAIN pm_call.out.sizes :
              a < b => size_to_order[pm_call.out.sizes[a]]
                         < size_to_order[pm_call.out.sizes[b]]

(***************************************************************************)
(* TagMap: repeated targets                                                *)
(***************************************************************************)

\* C16 (as stated): on a validly constructed TagMap, a map_tags call that
\* succeeds returns no target tag more than once, whether multi-tag rules,
\* single-tag mappings or default injection produced it.
C16_NoTargetTwice ==
    Succeeded =>
        \A a, b \in DOMAIN map_result.tags :
            a # b => map_result.tags[a] # map_result.tags[b]

====
